---- MODULE Spec2Model ----
(***************************************************************************)
(* A model of mailer.py: the record-to-message pipeline (extract_emails),  *)
(* the dispatch loop (send_messages) and the command-line driver (main).   *)
(*                                                                         *)
(* Python strings are modelled as sequences of one-character strings so    *)
(* that str.lower(), str.strip() and EMAIL_REGEX are computed on the       *)
(* characters.  Python lists hold references: the lists found, missing and *)
(* unique hold the index of a record in the input list `records`.          *)
(***************************************************************************)
EXTENDS Integers, Sequences, FiniteSets, TLC

\* ------------------------------------------------------------------ bounds
MaxRecords == 3      \* longest batch handed to extract_emails on its own
MaxMessages == 3     \* longest message list handed to send_messages on its own
MaxElements == 3     \* longest JSON array read by main

\* ----------------------------------------------------------------- strings
Whitespace == {" ", "\t"}

UpperCase ==
    << "A", "B", "C", "D", "E", "F", "G", "H", "I", "J", "K", "L", "M",
       "N", "O", "P", "Q", "R", "S", "T", "U", "V", "W", "X", "Y", "Z" >>
LowerCase ==
    << "a", "b", "c", "d", "e", "f", "g", "h", "i", "j", "k", "l", "m",
       "n", "o", "p", "q", "r", "s", "t", "u", "v", "w", "x", "y", "z" >>

\* the lowercase of one character
LowerChar(c) ==
    IF \E p \in 1..Len(UpperCase) : UpperCase[p] = c
    THEN LowerCase[CHOOSE p \in 1..Len(UpperCase) : UpperCase[p] = c]
    ELSE c

\* str.lower()
Lower(s) == [p \in 1..Len(s) |-> LowerChar(s[p])]

RECURSIVE LStrip(_)
LStrip(s) ==
    IF s = <<>> THEN s
    ELSE IF Head(s) \in Whitespace THEN LStrip(Tail(s)) ELSE s

RECURSIVE RStrip(_)
RStrip(s) ==
    IF s = <<>> THEN s
    ELSE IF s[Len(s)] \in Whitespace THEN RStrip(SubSeq(s, 1, Len(s) - 1)) ELSE s

\* str.strip()
Strip(s) == RStrip(LStrip(s))

\* the positions of character c in s
Positions(s, c) == {p \in 1..Len(s) : s[p] = c}

\* EMAIL_REGEX.match(s): ^[^@\s]+@[^@\s]+\.[^@\s]+$
EMAIL_REGEX_match(s) ==
    /\ \A p \in 1..Len(s) : s[p] \notin Whitespace
    /\ Cardinality(Positions(s, "@")) = 1
    /\ LET at == CHOOSE p \in Positions(s, "@") : TRUE
       IN /\ at > 1
          /\ \E d \in Positions(s, ".") : at + 1 < d /\ d < Len(s)

\* a dot-separated part with no empty atom: no leading, trailing or doubled dot
DotAtom(s) ==
    /\ s # <<>>
    /\ s[1] # "."
    /\ s[Len(s)] # "."
    /\ \A p \in 1..(Len(s) - 1) : ~(s[p] = "." /\ s[p + 1] = ".")

\* validate_email(email_val, check_deliverability=False): the syntax check of the
\* email_validator package; .normalized keeps the local part and lowercases the
\* domain.  ok = FALSE stands for EmailNotValidError.
validate_email(s) ==
    IF /\ \A p \in 1..Len(s) : s[p] \notin Whitespace
       /\ Cardinality(Positions(s, "@")) = 1
    THEN LET at == CHOOSE p \in Positions(s, "@") : TRUE
             local == SubSeq(s, 1, at - 1)
             domain == SubSeq(s, at + 1, Len(s))
         IN IF DotAtom(local) /\ DotAtom(domain) /\ Positions(domain, ".") # {}
            THEN [ok |-> TRUE, normalized |-> local \o <<"@">> \o Lower(domain)]
            ELSE [ok |-> FALSE, normalized |-> <<>>]
    ELSE [ok |-> FALSE, normalized |-> <<>>]

\* ----------------------------------------------------------------- records
EMAIL_KEY_ALIASES ==
    { <<"e","m","a","i","l">>, <<"e","-","m","a","i","l">>, <<"m","a","i","l">> }

\* a JSON value of a field: a string, or something that is not a string
Str(s) == [isstr |-> TRUE, s |-> s]
NotStr == [isstr |-> FALSE, s |-> <<>>]

Field(k, v) == [k |-> k, v |-> v]

K_Name == <<"N","a","m","e">>
K_Email == <<"E","m","a","i","l">>
K_email == <<"e","m","a","i","l">>
K_EMail == <<"E","-","M","a","i","l">>
K_mail == <<"m","a","i","l">>

A_aa == <<"a","@","a",".","c","o","m">>            \* a@a.com
A_Ax == <<"A","@","x",".","c","o","m">>            \* A@x.com
A_ax == <<"a","@","x",".","c","o","m">>            \* a@x.com
A_bX == <<" ","b","@","X",".","c","o","m"," ">>    \* " b@X.com "
A_dot == <<".","a","@","x",".","c","o","m">>       \* .a@x.com
A_bad == <<"n","o","t","-","a","n","-","e","m","a","i","l">>
A_blank == <<" "," ">>

RecA == << Field(K_Name, Str(<<"A">>)), Field(K_Email, Str(A_aa)) >>
RecB == << Field(K_Name, Str(<<"B">>)), Field(K_mail, Str(A_aa)) >>
RecC == << Field(K_Name, Str(<<"C">>)) >>
RecUpper == << Field(K_EMail, Str(A_Ax)) >>
RecLower == << Field(K_email, Str(A_ax)) >>
RecBlankThenValid == << Field(K_email, Str(A_blank)), Field(K_mail, Str(A_bX)) >>
RecBadThenValid == << Field(K_Email, Str(A_bad)), Field(K_mail, Str(A_ax)) >>
RecNumThenEmpty == << Field(K_Email, NotStr), Field(K_mail, Str(<<>>)) >>
RecDot == << Field(K_mail, Str(A_dot)) >>

\* the records a batch is drawn from
Records ==
    { RecA, RecB, RecC, RecUpper, RecLower, RecBlankThenValid, RecBadThenValid,
      RecNumThenEmpty, RecDot }

SeqsUpTo(S, n) == UNION { [1..k -> S] : k \in 0..n }

\* ------------------------------------------------------------------- state
VARIABLES
    pc,         \* the position of the run
    records,    \* extract_emails: the input list
    idx,        \* extract_emails: the position of `for rec in records`
    found,      \* extract_emails: [(email, rec)] in input order
    missing,    \* extract_emails: [rec] without a usable address
    seen,       \* extract_emails: lowercased addresses already kept
    unique,     \* extract_emails: the de-duplicated pairs
    didx,       \* extract_emails: the position of `for email, rec in found`
    messages,   \* send_messages: the messages to deliver
    dry_run,    \* send_messages: the dry_run argument (args.dry_run)
    rate_per_minute,  \* send_messages: the rate_per_minute argument (args.rate)
    config,     \* Config: rate_per_minute and use_ssl
    delay,      \* send_messages: the pacing delay, computed once
    i,          \* send_messages: the ordinal of `for i, msg in enumerate(...)`
    session,    \* the transport session: none, open, closed
    sessions,   \* how many transport sessions were opened
    exc,        \* whether an exception is leaving the `with` block
    log,        \* send_messages: transport calls, printed lines and sleeps, in order
    mode,       \* main: which of --test and --list was given
    ridx,       \* main: the position of `for email_addr, rec in pairs`
    summary,    \* main: the [SUMMARY] line, once printed
    stderr,     \* main: the tag of the error line written, if any
    uncaught,   \* main: what raised the exception that left main, if any
    exit_code   \* main: the value returned, -1 while running

extractVars == <<records, idx, found, missing, seen, unique, didx>>
sendVars == <<messages, dry_run, rate_per_minute, config, delay, i, session, sessions, exc, log>>
mainVars == <<mode, ridx, summary, stderr, uncaught, exit_code>>
vars == <<pc, extractVars, sendVars, mainVars>>

None == [some |-> FALSE, s |-> <<>>]
Some(s) == [some |-> TRUE, s |-> s]

\* mutant: the scan keeps the last matching field instead of stopping at the first
RECURSIVE Candidate_Last(_)
Candidate_Last(rec) ==
    IF rec = <<>> THEN None
    ELSE LET f == rec[Len(rec)]
         IN IF Lower(f.k) \in EMAIL_KEY_ALIASES /\ f.v.isstr /\ Strip(f.v.s) # <<>>
            THEN Some(Strip(f.v.s))
            ELSE Candidate_Last(SubSeq(rec, 1, Len(rec) - 1))

\* the inner loop `for k, v in rec.items()`: email_val
RECURSIVE Candidate(_)
Candidate(rec) ==
    IF rec = <<>> THEN None
    ELSE LET f == Head(rec)
         IN IF Lower(f.k) \in EMAIL_KEY_ALIASES /\ f.v.isstr /\ Strip(f.v.s) # <<>>
            THEN Some(Strip(f.v.s))
            ELSE Candidate(Tail(rec))

\* the try/except around validate_email: email_clean, or None when the record
\* is to be skipped
Clean(email_val) ==
    LET valid == validate_email(email_val)
    IN IF valid.ok THEN Some(valid.normalized)
       ELSE IF EMAIL_REGEX_match(email_val) THEN Some(email_val) ELSE None

\* mutant: the membership test compares the address as written
IsSeen_CaseSensitive(email, s) == email \in s

\* `email.lower() in seen`
IsSeen(email, s) == Lower(email) \in s

\* one iteration of `for rec in records`
ScanRecord ==
    /\ pc = "scan"
    /\ idx <= Len(records)
    /\ LET email_val == Candidate(records[idx])
       IN IF ~email_val.some \/ email_val.s = <<>>
          THEN /\ missing' = Append(missing, idx)
               /\ found' = found
          ELSE LET email_clean == Clean(email_val.s)
               IN IF ~email_clean.some
                  THEN /\ missing' = Append(missing, idx)
                       /\ found' = found
                  ELSE /\ found' = Append(found, [email |-> email_clean.s, rec |-> idx])
                       /\ missing' = missing
    /\ idx' = idx + 1
    /\ UNCHANGED <<pc, records, seen, unique, didx, sendVars, mainVars>>

\* the first loop is exhausted: seen = set(), unique = []
ScanDone ==
    /\ pc = "scan"
    /\ idx > Len(records)
    /\ pc' = "dedup"
    /\ seen' = {}
    /\ unique' = <<>>
    /\ didx' = 1
    /\ UNCHANGED <<records, idx, found, missing, sendVars, mainVars>>

\* one iteration of `for email, rec in found`
DedupStep ==
    /\ pc = "dedup"
    /\ didx <= Len(found)
    /\ LET p == found[didx]
       IN IF IsSeen(p.email, seen)
          THEN UNCHANGED <<seen, unique>>
          ELSE /\ seen' = seen \cup {Lower(p.email)}
               /\ unique' = Append(unique, p)
    /\ didx' = didx + 1
    /\ UNCHANGED <<pc, records, idx, found, missing, sendVars, mainVars>>

\* return unique, missing
ExtractReturn ==
    /\ pc = "dedup"
    /\ didx > Len(found)
    /\ pc' = "extracted"
    /\ UNCHANGED <<mainVars, extractVars, sendVars, mainVars>>

\* ----------------------------------------------------------- send_messages
\* Optional[float]: None, or a number
NoRate == [set |-> FALSE, v |-> 0]
Rate(v) == [set |-> TRUE, v |-> v]

\* an EmailMessage, as far as the dispatch loop reads it: its To header
Msg(to) == [To |-> to]

RECURSIVE GCD(_, _)
GCD(a, b) == IF b = 0 THEN a ELSE GCD(b, a % b)

\* a number of seconds as a fraction in lowest terms
Seconds(num, den) == [num |-> num \div GCD(num, den), den |-> den \div GCD(num, den)]
NoDelay == [num |-> 0, den |-> 1]

\* one entry of the log: a transport call, a printed line or a sleep
Ev(ev, n, ok, m, d) == [ev |-> ev, n |-> n, ok |-> ok, m |-> m, d |-> d]
NoMsg == Msg(<<>>)
TransportCalls == {"connect", "starttls", "login", "send_message", "quit"}

\* rate = rate_per_minute if rate_per_minute is not None else config.rate_per_minute
EffectiveRate(arg, cfg) == IF arg.set THEN arg ELSE cfg.rate_per_minute

\* delay = (60.0 / rate) if rate and rate > 0 else 0.0
ComputeDelay(rate) ==
    IF rate.set /\ rate.v # 0 /\ rate.v > 0 THEN Seconds(60, rate.v) ELSE NoDelay

\* mutant: the sleep also follows the last message
ShouldSleep_AfterLast(d, n, total) == d # NoDelay /\ n <= total

\* `if delay and i < len(messages)`
ShouldSleep(d, n, total) == d # NoDelay /\ n < total

\* mutant: dry_run is ignored
DryRunReturns_Never(dry) == FALSE

\* `if dry_run: ... return`
DryRunReturns(dry) == dry

\* mutant: a failed delivery is swallowed and the loop goes on
OnSendError_Continue == [pc |-> "pace", exc |-> FALSE]

\* server.send_message(msg) raises: the exception leaves the loop and the `with`
OnSendError == [pc |-> "exit_with", exc |-> TRUE]

\* mutant: the session is closed on the normal path only
SessionAfterExit_LeakOnError(raising) == IF raising THEN "open" ELSE "closed"

\* SMTP.__exit__: close() runs in a finally, whatever left the block
SessionAfterExit(raising) == "closed"

\* lines 180-186: the dry-run return, or rate and delay
SendEnter ==
    /\ pc = "send"
    /\ IF DryRunReturns(dry_run)
       THEN /\ log' = Append(log, Ev("dry_run_line", Len(messages), TRUE, NoMsg, NoDelay))
            /\ pc' = "returned"
            /\ delay' = delay
       ELSE /\ delay' = ComputeDelay(EffectiveRate(rate_per_minute, config))
            /\ pc' = "connect"
            /\ log' = log
    /\ UNCHANGED <<mainVars, extractVars, messages, dry_run, rate_per_minute, config, i, session, sessions, exc>>

\* smtplib.SMTP_SSL(host, port, context) or smtplib.SMTP(host, port): the
\* constructor connects, and raises when it cannot
Connect ==
    /\ pc = "connect"
    /\ \E ok \in BOOLEAN :
         /\ log' = Append(log, Ev("connect", 0, ok, NoMsg, NoDelay))
         /\ IF ok
            THEN /\ session' = "open"
                 /\ sessions' = sessions + 1
                 /\ pc' = IF config.use_ssl THEN "login" ELSE "starttls"
            ELSE /\ pc' = "raised"
                 /\ UNCHANGED <<session, sessions>>
    /\ UNCHANGED <<mainVars, extractVars, messages, dry_run, rate_per_minute, config, delay, i, exc>>

\* server.ehlo(); server.starttls(context=...)
StartTLS ==
    /\ pc = "starttls"
    /\ \E ok \in BOOLEAN :
         /\ log' = Append(log, Ev("starttls", 0, ok, NoMsg, NoDelay))
         /\ pc' = IF ok THEN "login" ELSE "exit_with"
         /\ exc' = ~ok
    /\ UNCHANGED <<mainVars, extractVars, messages, dry_run, rate_per_minute, config, delay, i, session, sessions>>

\* server.login(username, password)
Login ==
    /\ pc = "login"
    /\ \E ok \in BOOLEAN :
         /\ log' = Append(log, Ev("login", 0, ok, NoMsg, NoDelay))
         /\ pc' = IF ok THEN "loop" ELSE "exit_with"
         /\ exc' = ~ok
    /\ i' = 1
    /\ UNCHANGED <<mainVars, extractVars, messages, dry_run, rate_per_minute, config, delay, session, sessions>>

\* server.send_message(msg)
SendMessage ==
    /\ pc = "loop"
    /\ i <= Len(messages)
    /\ \E ok \in BOOLEAN :
         /\ log' = Append(log, Ev("send_message", i, ok, messages[i], NoDelay))
         /\ IF ok
            THEN pc' = "print" /\ exc' = FALSE
            ELSE pc' = OnSendError.pc /\ exc' = OnSendError.exc
    /\ UNCHANGED <<mainVars, extractVars, messages, dry_run, rate_per_minute, config, delay, i, session, sessions>>

\* print(f"[OK] {i}/{len(messages)} -> {msg['To']}")
PrintOk ==
    /\ pc = "print"
    /\ log' = Append(log, Ev("ok_line", i, TRUE, messages[i], NoDelay))
    /\ pc' = "pace"
    /\ UNCHANGED <<mainVars, extractVars, messages, dry_run, rate_per_minute, config, delay, i, session, sessions, exc>>

\* `if delay and i < len(messages): time.sleep(delay)`, then the next iteration
Pace ==
    /\ pc = "pace"
    /\ IF ShouldSleep(delay, i, Len(messages))
       THEN log' = Append(log, Ev("sleep", i, TRUE, NoMsg, delay))
       ELSE log' = log
    /\ i' = i + 1
    /\ pc' = "loop"
    /\ UNCHANGED <<mainVars, extractVars, messages, dry_run, rate_per_minute, config, delay, session, sessions, exc>>

\* the loop is exhausted: the `with` block ends normally
LoopDone ==
    /\ pc = "loop"
    /\ i > Len(messages)
    /\ pc' = "exit_with"
    /\ exc' = FALSE
    /\ UNCHANGED <<mainVars, extractVars, messages, dry_run, rate_per_minute, config, delay, i, session, sessions, log>>

\* SMTP.__exit__: QUIT, then close() in a finally.  A QUIT answered with
\* another code than 221 raises on the normal path too.
ExitWith ==
    /\ pc = "exit_with"
    /\ session' = SessionAfterExit(exc)
    /\ \E ok \in BOOLEAN :
         /\ log' = Append(log, Ev("quit", 0, ok, NoMsg, NoDelay))
         /\ pc' = IF exc \/ ~ok THEN "raised" ELSE "returned"
    /\ UNCHANGED <<mainVars, extractVars, messages, dry_run, rate_per_minute, config, delay, i, sessions, exc>>

\* --------------------------------------------------------------------- main
\* the environment Config.from_env reads
EnvRates ==
    { [kind |-> "unset", v |-> 0], [kind |-> "empty", v |-> 0],
      [kind |-> "malformed", v |-> 0], [kind |-> "number", v |-> -10],
      [kind |-> "number", v |-> 45] }

Envs ==
    [ port_is_int : BOOLEAN, rate : EnvRates, username : BOOLEAN, password : BOOLEAN,
      template_exists : BOOLEAN, use_ssl : {"unset", "true", "0"} ]

Raised(what) == [ok |-> FALSE, what |-> what, cfg |-> [rate_per_minute |-> NoRate, use_ssl |-> TRUE]]

\* Config.from_env(): the conversions first, then the three checks
from_env(env) ==
    IF ~env.port_is_int THEN Raised("ValueError: SMTP_PORT")
    ELSE IF env.rate.kind = "malformed" THEN Raised("ValueError: RATE_PER_MIN")
    ELSE IF ~env.username THEN Raised("Missing SMTP_USERNAME")
    ELSE IF ~env.password THEN Raised("Missing SMTP_PASSWORD")
    ELSE IF ~env.template_exists THEN Raised("TEMPLATE_PATH does not exist")
    ELSE [ok |-> TRUE, what |-> "",
          cfg |-> [rate_per_minute |->
                       IF env.rate.kind = "number" THEN Rate(env.rate.v) ELSE NoRate,
                   use_ssl |-> (IF env.use_ssl = "unset" THEN "true" ELSE env.use_ssl)
                                   \in {"1", "true", "yes", "on"}]]

\* an element of a JSON array: an object (a record), or anything else
Dict(rec) == [isdict |-> TRUE, rec |-> rec]
NonDict == [isdict |-> FALSE, rec |-> <<>>]

\* a JSON value under a key: a list of elements, or anything else (absent included)
JList(elems) == [islist |-> TRUE, elems |-> elems]
NotList == [islist |-> FALSE, elems |-> <<>>]

\* what json.load finds in the batch file
ListDoc(elems) ==
    [kind |-> "list", top |-> elems, items |-> NotList, results |-> NotList, data |-> NotList]
DictDoc(a, b, c) ==
    [kind |-> "dict", top |-> <<>>, items |-> a, results |-> b, data |-> c]
ScalarDoc == [kind |-> "scalar", top |-> <<>>, items |-> NotList, results |-> NotList, data |-> NotList]
NotJson == [kind |-> "invalid", top |-> <<>>, items |-> NotList, results |-> NotList, data |-> NotList]

Elements == { Dict(RecA), Dict(RecB), Dict(RecC), Dict(RecUpper), NonDict }
KeyValues == { NotList, JList(<<Dict(RecA)>>), JList(<<NonDict, Dict(RecC)>>) }

Docs ==
    { ListDoc(e) : e \in SeqsUpTo(Elements, MaxElements) }
        \cup { DictDoc(a, b, c) : a \in KeyValues, b \in KeyValues, c \in KeyValues }
        \cup { ScalarDoc, NotJson }

\* [x for x in data if isinstance(x, dict)]
RECURSIVE OnlyDicts(_)
OnlyDicts(elems) ==
    IF elems = <<>> THEN <<>>
    ELSE IF Head(elems).isdict THEN <<Head(elems).rec>> \o OnlyDicts(Tail(elems))
         ELSE OnlyDicts(Tail(elems))

\* load_json_records(path): ok = FALSE stands for the ValueError it raises, or the
\* JSONDecodeError (a ValueError) json.load raises
load_json_records(doc) ==
    IF doc.kind = "invalid" THEN [ok |-> FALSE, records |-> <<>>]
    ELSE IF doc.kind = "list" THEN [ok |-> TRUE, records |-> OnlyDicts(doc.top)]
    ELSE IF doc.kind = "dict" /\ doc.items.islist
         THEN [ok |-> TRUE, records |-> OnlyDicts(doc.items.elems)]
    ELSE IF doc.kind = "dict" /\ doc.results.islist
         THEN [ok |-> TRUE, records |-> OnlyDicts(doc.results.elems)]
    ELSE IF doc.kind = "dict" /\ doc.data.islist
         THEN [ok |-> TRUE, records |-> OnlyDicts(doc.data.elems)]
    ELSE [ok |-> FALSE, records |-> <<>>]

NoSummary == [printed |-> FALSE, total |-> 0, queued |-> 0, skipped |-> 0]

\* mutant: every record that is not queued is counted as skipped
SummaryLine_SkippedIsRest(recs, pairs, miss) ==
    [printed |-> TRUE, total |-> Len(recs), queued |-> Len(pairs),
     skipped |-> Len(recs) - Len(pairs)]

\* print(f"[SUMMARY] {len(records)} total; {len(pairs)} to send; {len(missing)} skipped ...")
SummaryLine(recs, pairs, miss) ==
    [printed |-> TRUE, total |-> Len(recs), queued |-> Len(pairs), skipped |-> Len(miss)]

\* mutant: each message is sent as soon as it is rendered
AfterRender_SendAtOnce == "send"

\* after messages.append(msg) the loop over pairs goes on
AfterRender == "extracted"

\* the address given to --test
TestAddress == A_ax

\* lines 229-238: cfg = Config.from_env(), or [CONFIG ERROR] and 2
MainConfig ==
    /\ pc = "config"
    /\ \E env \in Envs :
         LET r == from_env(env)
         IN IF r.ok
            THEN /\ config' = r.cfg
                 /\ pc' = mode
                 /\ UNCHANGED <<stderr, exit_code>>
            ELSE /\ stderr' = "[CONFIG ERROR]"
                 /\ exit_code' = 2
                 /\ pc' = "exit"
                 /\ config' = config
    /\ UNCHANGED <<extractVars, messages, dry_run, rate_per_minute, delay, i, session,
                   sessions, exc, log, mode, ridx, summary, uncaught>>

\* lines 245-262: --test renders one message; a rendering error leaves main
MainTest ==
    /\ pc = "test"
    /\ \E ok \in BOOLEAN :
         IF ok
         THEN /\ messages' = Append(messages, Msg(TestAddress))
              /\ pc' = "send"
              /\ uncaught' = uncaught
         ELSE /\ pc' = "uncaught"
              /\ uncaught' = "render_template"
              /\ messages' = messages
    /\ UNCHANGED <<extractVars, dry_run, rate_per_minute, config, delay, i, session,
                   sessions, exc, log, mode, ridx, summary, stderr, exit_code>>

\* lines 264-268: --list with a path that does not exist: [ERROR] and 2
MainList ==
    /\ pc = "list"
    /\ \E exists \in BOOLEAN :
         IF exists
         THEN /\ pc' = "load"
              /\ UNCHANGED <<stderr, exit_code>>
         ELSE /\ stderr' = "[ERROR]"
              /\ exit_code' = 2
              /\ pc' = "exit"
    /\ UNCHANGED <<extractVars, sendVars, mode, ridx, summary, uncaught>>

\* line 270: records = load_json_records(json_path), outside any try
MainLoad ==
    /\ pc = "load"
    /\ \E doc \in Docs :
         LET r == load_json_records(doc)
         IN IF r.ok
            THEN /\ records' = r.records
                 /\ pc' = "scan"
                 /\ uncaught' = uncaught
            ELSE /\ pc' = "uncaught"
                 /\ uncaught' = "load_json_records"
                 /\ records' = records
    /\ UNCHANGED <<idx, found, missing, seen, unique, didx, sendVars, mode, ridx,
                   summary, stderr, exit_code>>

\* lines 275-285: one iteration of `for email_addr, rec in pairs`, outside any try
MainRender ==
    /\ pc = "extracted"
    /\ ridx <= Len(unique)
    /\ \E ok \in BOOLEAN :
         IF ok
         THEN /\ messages' = Append(messages, Msg(unique[ridx].email))
              /\ ridx' = ridx + 1
              /\ pc' = AfterRender
              /\ uncaught' = uncaught
         ELSE /\ pc' = "uncaught"
              /\ uncaught' = "render_template"
              /\ UNCHANGED <<messages, ridx>>
    /\ UNCHANGED <<extractVars, dry_run, rate_per_minute, config, delay, i, session,
                   sessions, exc, log, mode, summary, stderr, exit_code>>

\* line 288: the summary, once every pair is rendered
MainSummary ==
    /\ pc = "extracted"
    /\ ridx > Len(unique)
    /\ summary' = SummaryLine(records, unique, missing)
    /\ pc' = "send"
    /\ UNCHANGED <<extractVars, sendVars, mode, ridx, stderr, uncaught, exit_code>>

\* lines 293-294, 299: send_messages returned
MainReturn ==
    /\ pc = "returned"
    /\ exit_code' = 0
    /\ pc' = "exit"
    /\ UNCHANGED <<extractVars, sendVars, mode, ridx, summary, stderr, uncaught>>

\* lines 295-297: send_messages raised: [SEND ERROR] and 3
MainSendError ==
    /\ pc = "raised"
    /\ stderr' = "[SEND ERROR]"
    /\ exit_code' = 3
    /\ pc' = "exit"
    /\ UNCHANGED <<extractVars, sendVars, mode, ridx, summary, uncaught>>

\* -------------------------------------------------------------- specifications
ExtractInitVars ==
    /\ records = <<>>
    /\ idx = 1
    /\ found = <<>>
    /\ missing = <<>>
    /\ seen = {}
    /\ unique = <<>>
    /\ didx = 1

MainInitVars ==
    /\ mode = "none"
    /\ ridx = 1
    /\ summary = NoSummary
    /\ stderr = ""
    /\ uncaught = "none"
    /\ exit_code = -1

SendInitVars ==
    /\ delay = NoDelay
    /\ i = 1
    /\ session = "none"
    /\ sessions = 0
    /\ exc = FALSE
    /\ log = <<>>

InitExtract ==
    /\ pc = "scan"
    /\ records \in SeqsUpTo(Records, MaxRecords)
    /\ idx = 1
    /\ found = <<>>
    /\ missing = <<>>
    /\ seen = {}
    /\ unique = <<>>
    /\ didx = 1
    /\ messages = <<>>
    /\ dry_run = FALSE
    /\ rate_per_minute = NoRate
    /\ config = [rate_per_minute |-> NoRate, use_ssl |-> TRUE]
    /\ SendInitVars
    /\ MainInitVars

NextExtract == ScanRecord \/ ScanDone \/ DedupStep \/ ExtractReturn

SpecExtract == InitExtract /\ [][NextExtract]_vars

\* the messages, rates and modes send_messages is called with
Messages == { Msg(A_aa), Msg(A_ax) }
RateArgs == { NoRate, Rate(0), Rate(30) }
ConfigRates == { NoRate, Rate(-10), Rate(45) }

InitSend ==
    /\ pc = "send"
    /\ ExtractInitVars
    /\ messages \in SeqsUpTo(Messages, MaxMessages)
    /\ dry_run \in BOOLEAN
    /\ rate_per_minute \in RateArgs
    /\ config \in [rate_per_minute : ConfigRates, use_ssl : BOOLEAN]
    /\ SendInitVars
    /\ MainInitVars

NextSend ==
    \/ SendEnter
    \/ Connect
    \/ StartTLS
    \/ Login
    \/ SendMessage
    \/ PrintOk
    \/ Pace
    \/ LoopDone
    \/ ExitWith

SpecSend == InitSend /\ [][NextSend]_vars

\* a run goes on as long as it can: the program is one sequential thread
FairSend == InitSend /\ [][NextSend]_vars /\ WF_vars(NextSend)

\* the command lines main is run with
Init ==
    /\ pc = "config"
    /\ mode \in {"test", "list"}
    /\ dry_run \in BOOLEAN
    /\ rate_per_minute \in {NoRate, Rate(30)}
    /\ config = [rate_per_minute |-> NoRate, use_ssl |-> TRUE]
    /\ messages = <<>>
    /\ ExtractInitVars
    /\ SendInitVars
    /\ ridx = 1
    /\ summary = NoSummary
    /\ stderr = ""
    /\ uncaught = "none"
    /\ exit_code = -1

Next ==
    \/ MainConfig
    \/ MainTest
    \/ MainList
    \/ MainLoad
    \/ NextExtract
    \/ MainRender
    \/ MainSummary
    \/ NextSend
    \/ MainReturn
    \/ MainSendError

Spec == Init /\ [][Next]_vars

\* ------------------------------------------------------ claims: extract_emails
CountIn(seq, x) == Cardinality({j \in 1..Len(seq) : seq[j] = x})
UniqueRecs == [j \in 1..Len(unique) |-> unique[j].rec]
FoundRecs == [j \in 1..Len(found) |-> found[j].rec]

\* the address extract_emails reads from record r of the input, if any
AddressOf(r) ==
    LET email_val == Candidate(records[r])
    IN IF email_val.some THEN Clean(email_val.s) ELSE None

\* record r has a valid address that, lowercased, is the address of an earlier record
RepeatsEarlier(r) ==
    /\ AddressOf(r).some
    /\ \E q \in 1..(r - 1) :
          AddressOf(q).some /\ Lower(AddressOf(q).s) = Lower(AddressOf(r).s)

\* C1 as stated: when extract_emails returns, every input record is in exactly one
\* of its two outputs, the addressed list or the rejected list.
C1_EveryRecordInOneOutput ==
    pc = "extracted" =>
        \A r \in 1..Len(records) : CountIn(UniqueRecs, r) + CountIn(missing, r) = 1

\* C1 as amended: when extract_emails returns, no input record is in both outputs or
\* twice in one; a record is in neither output exactly when its valid address,
\* lowercased, repeats the address of an earlier record; every other record is in
\* exactly one output.
C1_EveryRecordInOneOutputOrDuplicate ==
    pc = "extracted" =>
        \A r \in 1..Len(records) :
            /\ CountIn(UniqueRecs, r) + CountIn(missing, r) <= 1
            /\ (CountIn(UniqueRecs, r) + CountIn(missing, r) = 0) <=> RepeatsEarlier(r)

C1_Witness ==
    /\ pc = "extracted"
    /\ \E r \in 1..Len(records) :
          /\ RepeatsEarlier(r)
          /\ CountIn(UniqueRecs, r) = 0
          /\ CountIn(missing, r) = 0
    /\ \E r \in 1..Len(records) : CountIn(missing, r) = 1

\* the positions of found that hold the first pair of their lowercased address
FirstOccurrences ==
    {j \in 1..Len(found) :
        \A k \in 1..(j - 1) : Lower(found[k].email) # Lower(found[j].email)}

\* C2: when extract_emails returns, the addressed output is exactly the subsequence
\* of the validated pairs made of the first pair of each lowercased address, in input
\* order and with the address as first seen; its addresses are pairwise distinct
\* under case-insensitive comparison.
C2_DedupKeepsFirstOccurrences ==
    pc = "extracted" =>
        /\ Len(unique) = Cardinality(FirstOccurrences)
        /\ \A j \in FirstOccurrences :
              unique[Cardinality({k \in FirstOccurrences : k <= j})] = found[j]
        /\ \A a, b \in 1..Len(unique) :
              a # b => Lower(unique[a].email) # Lower(unique[b].email)

C2_Witness ==
    /\ pc = "extracted"
    /\ records = <<RecUpper, RecLower>>
    /\ found = << [email |-> A_Ax, rec |-> 1], [email |-> A_ax, rec |-> 2] >>
    /\ unique = << [email |-> A_Ax, rec |-> 1] >>

\* whether the trimmed candidate passes validation: validate_email, or the pattern
PassesValidation(a) == validate_email(a).ok \/ EMAIL_REGEX_match(a)

\* the fields of a record that name an address and hold a string with something
\* left after trimming
UsableFields(rec) ==
    {j \in 1..Len(rec) :
        Lower(rec[j].k) \in EMAIL_KEY_ALIASES /\ rec[j].v.isstr /\ Strip(rec[j].v.s) # <<>>}

\* the fields of a record that name an address and hold a non-empty string
NonEmptyFields(rec) ==
    {j \in 1..Len(rec) :
        Lower(rec[j].k) \in EMAIL_KEY_ALIASES /\ rec[j].v.isstr /\ rec[j].v.s # <<>>}

Min(S) == CHOOSE x \in S : \A y \in S : x <= y

Rejected(r) == CountIn(missing, r) = 1 /\ CountIn(FoundRecs, r) = 0
Addressed(r) == CountIn(missing, r) = 0 /\ CountIn(FoundRecs, r) = 1

\* C9 as stated: the candidate of a record is its first field named by an alias
\* whose value is a non-empty string; the record is rejected when the trimmed
\* candidate fails validation (a candidate of whitespace only included) or when
\* there is no candidate, and is addressed otherwise.
C9_FirstNonEmptyAliasDecides ==
    \A r \in 1..(idx - 1) :
        LET rec == records[r]
        IN IF NonEmptyFields(rec) = {} THEN Rejected(r)
           ELSE LET a == Strip(rec[Min(NonEmptyFields(rec))].v.s)
                IN IF a # <<>> /\ PassesValidation(a) THEN Addressed(r) ELSE Rejected(r)

\* C9 as amended: the candidate of a record is its first field named by an alias
\* whose value is a string that is non-empty after trimming (a value of whitespace
\* only is passed over); that candidate alone decides the record: rejected when it
\* fails validation, whatever later fields hold, and rejected when there is none.
C9_FirstUsableAliasDecides ==
    \A r \in 1..(idx - 1) :
        LET rec == records[r]
        IN IF UsableFields(rec) = {} THEN Rejected(r)
           ELSE LET a == Strip(rec[Min(UsableFields(rec))].v.s)
                IN IF PassesValidation(a)
                   THEN /\ Addressed(r)
                        /\ \E j \in 1..Len(found) :
                              /\ found[j].rec = r
                              /\ found[j].email =
                                   IF validate_email(a).ok
                                   THEN validate_email(a).normalized ELSE a
                   ELSE Rejected(r)

C9_Witness ==
    /\ Len(records) >= 2
    /\ records[1] = RecBadThenValid
    /\ records[2] = RecBlankThenValid
    /\ idx > 2
    /\ missing = <<1>>
    /\ found = << [email |-> <<"b","@","x",".","c","o","m">>, rec |-> 2] >>

\* ------------------------------------------------------- claims: send_messages
IsSend(e) == e.ev = "send_message"
Sleeps == {p \in DOMAIN log : log[p].ev = "sleep"}
OkSends == {p \in DOMAIN log : log[p].ev = "send_message" /\ log[p].ok}

\* C3: in a non-dry run with an effective rate > 0, every pacing delay has the value
\* 60/rate and follows the delivery of a message i < n and precedes the delivery of
\* message i+1, once per gap; after n >= 1 deliveries that all succeeded there were
\* exactly n-1 delays.  With the effective rate unset or <= 0 there is no delay.
C3_PacingLaw ==
    LET rate == IF rate_per_minute.set THEN rate_per_minute ELSE config.rate_per_minute
        n == Len(messages)
    IN /\ ~(rate.set /\ rate.v > 0) => Sleeps = {}
       /\ \A p \in Sleeps :
             /\ log[p].d.den > 0
             /\ log[p].d.num * rate.v = 60 * log[p].d.den
             /\ 1 <= log[p].n /\ log[p].n < n
             /\ \E q \in 1..(p - 1) : IsSend(log[q]) /\ log[q].ok /\ log[q].n = log[p].n
             /\ \A q \in 1..(p - 1) : IsSend(log[q]) => log[q].n <= log[p].n
             /\ \A q \in (p + 1)..Len(log) : IsSend(log[q]) => log[q].n > log[p].n
             /\ \A q \in Sleeps : log[q].n = log[p].n => q = p
       /\ (rate.set /\ rate.v > 0 /\ ~dry_run /\ n >= 1 /\ Cardinality(OkSends) = n)
             => Cardinality(Sleeps) = n - 1

C3_Witness ==
    /\ pc = "returned"
    /\ ~dry_run
    /\ rate_per_minute = Rate(30)
    /\ Len(messages) = 3
    /\ Cardinality(OkSends) = 3
    /\ Cardinality(Sleeps) = 2
    /\ \A p \in Sleeps : log[p].d = [num |-> 2, den |-> 1]

\* C4: with dry_run set, send_messages makes no transport call and no pacing delay
\* and opens no session, and the count it reports is the number of messages.
C4_DryRunNoOp ==
    dry_run =>
        /\ \A p \in DOMAIN log : log[p].ev \notin (TransportCalls \cup {"sleep"})
        /\ session = "none"
        /\ sessions = 0
        /\ pc \in {"returned", "raised"} =>
              /\ pc = "returned"
              /\ Cardinality({p \in DOMAIN log : log[p].ev = "dry_run_line"}) = 1
              /\ \A p \in DOMAIN log :
                    log[p].ev = "dry_run_line" => log[p].n = Len(messages)

C4_Witness ==
    /\ dry_run
    /\ pc = "returned"
    /\ Len(messages) = 3
    /\ ~config.use_ssl
    /\ rate_per_minute = Rate(30)

\* C5: in a non-dry run the delivery attempts are a prefix of the message list, the
\* k-th attempt being message k; nothing but the end of the session follows a failed
\* attempt; a progress line with ordinal k is printed right after each successful
\* delivery of message k, and at no other time.
C5_SequentialFailFast ==
    LET attempts == SelectSeq(log, IsSend)
    IN /\ Len(attempts) <= Len(messages)
       /\ \A k \in 1..Len(attempts) : attempts[k].n = k /\ attempts[k].m = messages[k]
       /\ \A p \in DOMAIN log :
             (IsSend(log[p]) /\ ~log[p].ok) =>
                 \A q \in (p + 1)..Len(log) : log[q].ev = "quit"
       /\ \A p \in DOMAIN log :
             log[p].ev = "ok_line" =>
                 /\ p > 1
                 /\ IsSend(log[p - 1]) /\ log[p - 1].ok
                 /\ log[p - 1].n = log[p].n /\ log[p - 1].m = log[p].m
       /\ \A p \in OkSends :
             IF p = Len(log) THEN pc = "print"
             ELSE log[p + 1].ev = "ok_line" /\ log[p + 1].n = log[p].n

C5_Witness ==
    /\ pc = "raised"
    /\ Len(messages) = 3
    /\ messages[1] # messages[2]
    /\ \E p \in DOMAIN log : IsSend(log[p]) /\ ~log[p].ok /\ log[p].n = 2
    /\ \E p \in DOMAIN log : log[p].ev = "ok_line" /\ log[p].n = 1

\* C6: at most one transport session is opened; send_messages never returns or
\* raises with the session open; an open session is eventually closed.
C6_SessionReleased ==
    /\ [](sessions <= 1)
    /\ [](pc \in {"returned", "raised"} => session # "open")
    /\ (session = "open") ~> (session = "closed")

C6_Witness ==
    /\ pc = "raised"
    /\ session = "closed"
    /\ ~config.use_ssl
    /\ \E p \in DOMAIN log : IsSend(log[p]) /\ ~log[p].ok

\* ---------------------------------------------------------------- claims: main
\* C7: every run of main ends with an exit code and never with an uncaught
\* exception: 2 with a tagged line for a configuration or input error, 3 with a
\* tagged line for a dispatch error, 0 only when nothing went wrong.
C7_CategoryTaggedTermination ==
    /\ pc # "uncaught"
    /\ pc = "exit" =>
          /\ exit_code \in {0, 2, 3}
          /\ exit_code = 0 <=> stderr = ""
          /\ exit_code = 2 <=> stderr \in {"[CONFIG ERROR]", "[ERROR]"}
          /\ exit_code = 3 <=> stderr = "[SEND ERROR]"

\* the batch of the scenario: A with Email a@a.com, B with mail a@a.com, C without
Scenario == <<RecA, RecB, RecC>>

ValidRecords == {r \in 1..Len(records) : AddressOf(r).some}
DistinctAddresses == {Lower(AddressOf(r).s) : r \in ValidRecords}
DuplicateRecords == {r \in 1..Len(records) : RepeatsEarlier(r)}

\* the [SUMMARY] line has just been printed
JustSummarised == summary.printed /\ pc = "send"

\* C8 as stated: for the scenario the addressed output is the single pair (a@a.com,
\* A) and the summary is total=3, queued=1, rejected=2; in general total is the number
\* of input records, queued the number of distinct valid addresses, and a dropped
\* duplicate is counted in rejected: total = queued + rejected.
C8_SummaryCountsDuplicatesAsRejected ==
    JustSummarised =>
        /\ summary.total = Len(records)
        /\ summary.queued = Cardinality(DistinctAddresses)
        /\ summary.total = summary.queued + summary.skipped
        /\ records = Scenario =>
              /\ unique = << [email |-> A_aa, rec |-> 1] >>
              /\ summary = [printed |-> TRUE, total |-> 3, queued |-> 1, skipped |-> 2]

\* C8 as amended: for the scenario the addressed output is the single pair (a@a.com,
\* A) and the summary is total=3, queued=1, rejected=1; in general total is the number
\* of input records, queued the number of distinct valid addresses, rejected the
\* number of records with no valid address, and a dropped duplicate is counted in
\* neither: total = queued + rejected + duplicates.
C8_SummaryAccounting ==
    JustSummarised =>
        /\ summary.total = Len(records)
        /\ summary.queued = Cardinality(DistinctAddresses)
        /\ summary.skipped = Len(records) - Cardinality(ValidRecords)
        /\ summary.total = summary.queued + summary.skipped + Cardinality(DuplicateRecords)
        /\ records = Scenario =>
              /\ unique = << [email |-> A_aa, rec |-> 1] >>
              /\ summary = [printed |-> TRUE, total |-> 3, queued |-> 1, skipped |-> 1]

C8_Witness ==
    /\ JustSummarised
    /\ records = Scenario
    /\ missing = <<3>>

TransportEvents == {p \in DOMAIN log : log[p].ev \in TransportCalls}

\* C10: no transport call is made before every message of the batch is rendered; when
\* rendering fails for a record, the first or a later one, main stops with no session
\* opened and no message delivered.
C10_RenderBeforeSend ==
    /\ (mode = "list" /\ (TransportEvents # {} \/ sessions > 0)) =>
          /\ ridx > Len(unique)
          /\ Len(messages) = Len(unique)
          /\ \A k \in 1..Len(unique) : messages[k] = Msg(unique[k].email)
    /\ uncaught = "render_template" =>
          /\ pc = "uncaught"
          /\ TransportEvents = {}
          /\ sessions = 0
          /\ session = "none"

C10_Witness ==
    /\ mode = "list"
    /\ uncaught = "render_template"
    /\ Len(unique) >= 2
    /\ Len(messages) = 1
    /\ ~dry_run

====
